---- MODULE Spec2Model ----
(***************************************************************************)
(* Model of the gripp3r-helper Alexa skill back end                        *)
(* (grip/skill-nodejs/lambda/index.js): the request handlers, the ordered  *)
(* handler list given to the skill builder, and the session attributes     *)
(* (endpointId, token, duration, speed) they read and write.               *)
(*                                                                         *)
(* One behaviour is one skill session: a sequence of invocations of the    *)
(* lambda entry point, each with a request envelope whose requestId is     *)
(* unique.  The skill keeps nothing between invocations but the session    *)
(* attributes, and answers whatever envelope it is handed, so any request  *)
(* may follow any other; only the launch request is the first of its       *)
(* session.  JavaScript values are modelled as records [t, s, n] so that   *)
(* undefined, NaN, strings, numbers and the empty array stay distinct.     *)
(***************************************************************************)
EXTENDS Integers, Sequences, FiniteSets, TLC

VARIABLES
    sessionAttributes,  \* the session attribute bag after the last invocation
    requestEnvelope,    \* the envelope of the last invocation (request + attributes received)
    apiResponse,        \* what Util.getConnectedEndpoints answered in the last invocation
    response,           \* the response the last invocation returned
    invoked,            \* the handler actions the last invocation ran, in order
    via,                \* how the last invocation was made: "lambda" or "call"
    history,            \* what the session has seen so far: expiries handled, timers
                        \* started, the last timer's token, the tokens replaced
    nextId              \* number of requests delivered so far (source of request ids)

vars ==
    <<sessionAttributes, requestEnvelope, apiResponse, response, invoked, via,
      history, nextId>>

(***************************************************************************)
(* Bounds of the model.                                                    *)
(***************************************************************************)
\* Requests of any kind arrive while fewer than MaxRequests were delivered;
\* timer expiries go on arriving until MaxSessionLength requests were.
MaxRequests == 4

\* How many of the latest request ids a notification may carry as a stale token.
MaxStale == 2

(***************************************************************************)
(* JavaScript values.                                                      *)
(***************************************************************************)
Undefined == [t |-> "undefined", s |-> "", n |-> 0]
NaN == [t |-> "NaN", s |-> "", n |-> 0]
EmptyArray == [t |-> "array", s |-> "", n |-> 0]
Str(text) == [t |-> "string", s |-> text, n |-> 0]
Num(k) == [t |-> "number", s |-> "", n |-> k]

\* ToBoolean: undefined, NaN, "" and 0 are falsy; [] is truthy.
Truthy(v) ==
    CASE v.t = "undefined" -> FALSE
      [] v.t = "NaN" -> FALSE
      [] v.t = "string" -> v.s # ""
      [] v.t = "number" -> v.n # 0
      [] OTHER -> TRUE

\* a || b
JsOr(a, b) == IF Truthy(a) THEN a ELSE b

\* ToString, as used by template literals and by string concatenation.
JsToString(v) ==
    CASE v.t = "undefined" -> "undefined"
      [] v.t = "NaN" -> "NaN"
      [] v.t = "string" -> v.s
      [] v.t = "number" -> ToString(v.n)
      [] OTHER -> ""

\* a + b where b is a string: string concatenation.
JsConcat(a, b) == Str(JsToString(a) \o b)

IsDigit(c) == c \in {"0", "1", "2", "3", "4", "5", "6", "7", "8", "9"}

DigitVal(c) ==
    CASE c = "0" -> 0 [] c = "1" -> 1 [] c = "2" -> 2 [] c = "3" -> 3
      [] c = "4" -> 4 [] c = "5" -> 5 [] c = "6" -> 6 [] c = "7" -> 7
      [] c = "8" -> 8 [] c = "9" -> 9

RECURSIVE SkipSpaces(_, _)
SkipSpaces(text, i) ==
    IF i <= Len(text) /\ SubSeq(text, i, i) = " " THEN SkipSpaces(text, i + 1) ELSE i

RECURSIVE ParseDigits(_, _, _)
ParseDigits(text, i, acc) ==
    IF i > Len(text) \/ ~IsDigit(SubSeq(text, i, i))
    THEN acc
    ELSE ParseDigits(text, i + 1, acc * 10 + DigitVal(SubSeq(text, i, i)))

\* parseInt(v): ToString, skip blanks, optional sign, the longest run of
\* digits; NaN when no digit follows.
parseInt(v) ==
    LET text == JsToString(v)
        b == SkipSpaces(text, 1)
        signed == b <= Len(text) /\ SubSeq(text, b, b) \in {"-", "+"}
        neg == signed /\ SubSeq(text, b, b) = "-"
        d == IF signed THEN b + 1 ELSE b
    IN  IF d <= Len(text) /\ IsDigit(SubSeq(text, d, d))
        THEN Num((IF neg THEN -1 ELSE 1) * ParseDigits(text, d, 0))
        ELSE NaN

\* Math.min / Math.max on two numbers: NaN if either is NaN.
MathMin(a, b) ==
    IF a.t = "NaN" \/ b.t = "NaN" THEN NaN ELSE IF a.n <= b.n THEN a ELSE b

MathMax(a, b) ==
    IF a.t = "NaN" \/ b.t = "NaN" THEN NaN ELSE IF a.n >= b.n THEN a ELSE b

\* a < b and a > b on numbers: false when either side is NaN.
JsLess(a, b) == a.t = "number" /\ b.t = "number" /\ a.n < b.n

JsGreater(a, b) == a.t = "number" /\ b.t = "number" /\ a.n > b.n

\* Strict equality a === b: NaN equals nothing, and two arrays are never
\* the same object once the attributes went through the envelope.
JsStrictEq(a, b) == a = b /\ a.t \notin {"NaN", "array"}

(***************************************************************************)
(* Program constants.                                                      *)
(***************************************************************************)
BG_MUSIC == "<audio src=\"soundbank://soundlibrary/ui/gameshow/amzn_ui_sfx_gameshow_waiting_loop_30s_01\"/>"

NAMESPACE == "Custom.Mindstorms.Gadget"

NAME_CONTROL == "control"

\* Util.putSessionAttribute(handlerInput, 'duration', 10)
InitialDuration == 10

\* Util.buildStartEventHandler(token, 60000, {})
TimerInterval == 60000

\* Long enough for a session to use up its whole budget after the last
\* request of another kind: one expiry per renewal, and the one that ends it.
MaxSessionLength == MaxRequests + InitialDuration + 1

(***************************************************************************)
(* Session attributes, responses and directives.                           *)
(***************************************************************************)
NewSession ==
    [endpointId |-> Undefined, token |-> Undefined,
     duration |-> Undefined, speed |-> Undefined]

\* Util.putSessionAttribute(handlerInput, key, value)
putSessionAttribute(attrs, key, value) == [attrs EXCEPT ![key] = value]

NoPayload ==
    [type |-> Undefined, direction |-> Undefined, duration |-> Undefined,
     command |-> Undefined, speed |-> Undefined]

\* Util.buildStartEventHandler(token, timeout, payload)
buildStartEventHandler(token, timeout) ==
    [type |-> "CustomInterfaceController.StartEventHandler",
     token |-> token, durationInMilliseconds |-> Num(timeout),
     endpointId |-> Undefined, namespace |-> "", name |-> "",
     payload |-> NoPayload]

\* Whether an endpoint id names no gadget.
EmptyEndpoint(endpointId) == ~Truthy(endpointId) \/ endpointId.t = "array"

\* Util.build(endpointId, namespace, name, payload): the directive, or a
\* ValidationError when no gadget is connected.
build(endpointId, namespace, name, payload) ==
    [threw |-> EmptyEndpoint(endpointId),
     directive |->
        [type |-> "CustomInterfaceController.SendDirective",
         token |-> Undefined, durationInMilliseconds |-> Undefined,
         endpointId |-> endpointId, namespace |-> namespace, name |-> name,
         payload |-> payload]]

\* handlerInput.responseBuilder, before any call on it.
EmptyResponse ==
    [speech |-> Undefined, reprompt |-> Undefined, directives |-> <<>>,
     shouldEndSession |-> "unset"]

speak(resp, text) == [resp EXCEPT !.speech = text]

reprompt(resp, text) ==
    [resp EXCEPT !.reprompt = text, !.shouldEndSession = "false"]

addDirective(resp, directive) ==
    [resp EXCEPT !.directives = Append(@, directive)]

withShouldEndSession(resp, val) ==
    [resp EXCEPT !.shouldEndSession = IF val THEN "true" ELSE "false"]

\* What a handler action hands back: its response, the attributes it
\* leaves, and whether it ended by throwing.
Returned(resp, attrs) == [response |-> resp, attrs |-> attrs, threw |-> FALSE]

Thrown(attrs) == [response |-> EmptyResponse, attrs |-> attrs, threw |-> TRUE]

\* Alexa.getSlotValue(requestEnvelope, slotName)
getSlotValue(env, slotName) == env.slots[slotName]

IsIntent(env, intentName) ==
    env.type = "IntentRequest" /\ env.intentName = intentName

(***************************************************************************)
(* LaunchRequestHandler                                                    *)
(***************************************************************************)
LaunchRequestHandler_canHandle(env) == env.type = "LaunchRequest"

\* Variant: the last endpoint found is stored instead of the first.
LaunchRequestHandler_handle_LastEndpoint(attrs, env, api) ==
    IF Len(IF api.hasEndpoints THEN api.endpoints ELSE <<>>) = 0
    THEN Returned(
            speak(EmptyResponse,
                  Str("I couldn't find an EV3 Brick connected to this Echo device. Please check to make sure your EV3 Brick is connected, and try again.")),
            attrs)
    ELSE LET endpointId == JsOr(api.endpoints[Len(api.endpoints)], EmptyArray)
             a1 == putSessionAttribute(attrs, "endpointId", endpointId)
             a2 == putSessionAttribute(a1, "duration", Num(InitialDuration))
             token == Str(env.requestId)
             a3 == putSessionAttribute(a2, "token", token)
             speechOutput == Str("Welcome, Gripper Helper is here for your command")
         IN  Returned(
                addDirective(
                    speak(EmptyResponse, JsConcat(speechOutput, BG_MUSIC)),
                    buildStartEventHandler(token, TimerInterval)),
                a3)

\* Variant: the token is stored before the endpoints are looked at.
LaunchRequestHandler_handle_EagerToken(attrs, env, api) ==
    LET token == Str(env.requestId)
        a0 == putSessionAttribute(attrs, "token", token)
    IN  IF Len(IF api.hasEndpoints THEN api.endpoints ELSE <<>>) = 0
        THEN Returned(
                speak(EmptyResponse,
                      Str("I couldn't find an EV3 Brick connected to this Echo device. Please check to make sure your EV3 Brick is connected, and try again.")),
                a0)
        ELSE LET endpointId == JsOr(api.endpoints[1], EmptyArray)
                 a1 == putSessionAttribute(a0, "endpointId", endpointId)
                 a2 == putSessionAttribute(a1, "duration", Num(InitialDuration))
                 speechOutput == Str("Welcome, Gripper Helper is here for your command")
             IN  Returned(
                    addDirective(
                        speak(EmptyResponse, JsConcat(speechOutput, BG_MUSIC)),
                        buildStartEventHandler(token, TimerInterval)),
                    a2)

LaunchRequestHandler_handle(attrs, env, api) ==
    IF Len(IF api.hasEndpoints THEN api.endpoints ELSE <<>>) = 0
    THEN Returned(
            speak(EmptyResponse,
                  Str("I couldn't find an EV3 Brick connected to this Echo device. Please check to make sure your EV3 Brick is connected, and try again.")),
            attrs)
    ELSE LET endpointId == JsOr(api.endpoints[1], EmptyArray)
             a1 == putSessionAttribute(attrs, "endpointId", endpointId)
             a2 == putSessionAttribute(a1, "duration", Num(InitialDuration))
             token == Str(env.requestId)
             a3 == putSessionAttribute(a2, "token", token)
             speechOutput == Str("Welcome, Gripper Helper is here for your command")
         IN  Returned(
                addDirective(
                    speak(EmptyResponse, JsConcat(speechOutput, BG_MUSIC)),
                    buildStartEventHandler(token, TimerInterval)),
                a3)

(***************************************************************************)
(* ComeIntentHandler, BringIntentHandler, TakeIntentHandler                *)
(***************************************************************************)
ComeIntentHandler_canHandle(env) == IsIntent(env, "ComeIntent")

ComeIntentHandler_handle(attrs, env) ==
    Returned(speak(EmptyResponse, Str("Hello, finally hit")), attrs)

RepeatResponse ==
    withShouldEndSession(speak(EmptyResponse, Str("Can you repeat that?")), FALSE)

\* A variant that attaches the directive whatever the endpoint.
SendCommand_Unchecked(attrs, payload, speechOutput) ==
    LET endpointId == JsOr(attrs.endpointId, EmptyArray)
        built == build(endpointId, NAMESPACE, NAME_CONTROL, payload)
    IN  Returned(
            addDirective(
                speak(EmptyResponse, JsConcat(speechOutput, BG_MUSIC)),
                built.directive),
            attrs)

\* The part the command handlers share: read endpointId and speed, build the
\* control directive, speak and attach it.
SendCommand(attrs, payload, speechOutput) ==
    LET endpointId == JsOr(attrs.endpointId, EmptyArray)
        built == build(endpointId, NAMESPACE, NAME_CONTROL, payload)
    IN  IF built.threw
        THEN Thrown(attrs)
        ELSE Returned(
                addDirective(
                    speak(EmptyResponse, JsConcat(speechOutput, BG_MUSIC)),
                    built.directive),
                attrs)

BringIntentHandler_canHandle(env) == IsIntent(env, "BringIntent")

\* A variant that keeps the default speed it used in the session.
BringIntentHandler_handle_StoreDefault(attrs, env) ==
    LET command == getSlotValue(env, "Bring")
    IN  IF ~Truthy(command)
        THEN Returned(RepeatResponse, attrs)
        ELSE SendCommand(
                IF Truthy(attrs.speed) THEN attrs
                ELSE putSessionAttribute(attrs, "speed", Num(50)),
                [NoPayload EXCEPT !.type = Str("bring"), !.command = command,
                                  !.speed = JsOr(attrs.speed, Str("50"))],
                Str("bring me stuff"))

BringIntentHandler_handle(attrs, env) ==
    LET command == getSlotValue(env, "Bring")
    IN  IF ~Truthy(command)
        THEN Returned(RepeatResponse, attrs)
        ELSE SendCommand(attrs,
                [NoPayload EXCEPT !.type = Str("bring"), !.command = command,
                                  !.speed = JsOr(attrs.speed, Str("50"))],
                Str("bring me stuff"))

\* Variant: any intent request is taken, whatever its name.
TakeIntentHandler_canHandle_AnyIntent(env) == env.type = "IntentRequest"

TakeIntentHandler_canHandle(env) == IsIntent(env, "TakeIntent")

TakeIntentHandler_handle(attrs, env) ==
    LET command == getSlotValue(env, "Take")
    IN  IF ~Truthy(command)
        THEN Returned(RepeatResponse, attrs)
        ELSE SendCommand(attrs,
                [NoPayload EXCEPT !.type = Str("take"), !.command = command,
                                  !.speed = JsOr(attrs.speed, Str("50"))],
                Str("take this"))

(***************************************************************************)
(* SetSpeedIntentHandler, MoveIntentHandler, SetCommandIntentHandler       *)
(***************************************************************************)
SetSpeedIntentHandler_canHandle(env) == IsIntent(env, "SetSpeedIntent")

\* Math.max(1, Math.min(100, parseInt(speed)))
BoundSpeed(speed) == MathMax(Num(1), MathMin(Num(100), parseInt(speed)))

SetSpeedIntentHandler_handle(attrs, env) ==
    LET speed == BoundSpeed(getSlotValue(env, "Speed"))
        speechOutput == Str("speed set to " \o JsToString(speed) \o " percent.")
    IN  Returned(speak(EmptyResponse, JsConcat(speechOutput, BG_MUSIC)),
                 putSessionAttribute(attrs, "speed", speed))

MoveIntentHandler_canHandle(env) == IsIntent(env, "MoveIntent")

MoveIntentHandler_handle(attrs, env) ==
    LET direction == getSlotValue(env, "Direction")
        duration == JsOr(getSlotValue(env, "Duration"), Str("2"))
        speed == JsOr(attrs.speed, Str("50"))
        speechOutput ==
            IF JsStrictEq(direction, Str("brake"))
            THEN Str("Applying brake")
            ELSE Str(JsToString(direction) \o " " \o JsToString(duration)
                     \o " seconds at " \o JsToString(speed) \o " percent speed")
    IN  SendCommand(attrs,
            [NoPayload EXCEPT !.type = Str("move"), !.direction = direction,
                              !.duration = duration, !.speed = speed],
            speechOutput)

SetCommandIntentHandler_canHandle(env) == IsIntent(env, "SetCommandIntent")

SetCommandIntentHandler_handle(attrs, env) ==
    LET command == getSlotValue(env, "Command")
        speechOutput ==
            IF JsStrictEq(command, Str("sentry")) \/ JsStrictEq(command, Str("sentry mode"))
            THEN Str("")
            ELSE Str("command " \o JsToString(command) \o " activated")
    IN  IF ~Truthy(command)
        THEN Returned(RepeatResponse, attrs)
        ELSE SendCommand(attrs,
                [NoPayload EXCEPT !.type = Str("command"), !.command = command,
                                  !.speed = JsOr(attrs.speed, Str("50"))],
                speechOutput)

(***************************************************************************)
(* EventsReceivedRequestHandler                                            *)
(***************************************************************************)
\* request.events[0]: undefined when the list is empty.
HasFirstEvent(env) == Len(env.events) > 0

\* Variant: the token of the request is not validated.
EventsReceivedRequestHandler_canHandle_NoTokenCheck(attrs, env) ==
    IF env.type # "CustomInterfaceController.EventsReceived" THEN "false"
    ELSE IF ~HasFirstEvent(env) THEN "throw"
    ELSE IF ~env.events[1].hasEndpoint THEN "throw"
    ELSE IF ~JsStrictEq(env.events[1].endpointId, attrs.endpointId) THEN "false"
    ELSE "true"

\* Variant: the endpoint of the event is not validated.
EventsReceivedRequestHandler_canHandle_NoEndpointCheck(attrs, env) ==
    IF env.type # "CustomInterfaceController.EventsReceived" THEN "false"
    ELSE IF ~JsStrictEq(attrs.token, env.token) THEN "false"
    ELSE IF ~HasFirstEvent(env) THEN "throw"
    ELSE IF ~env.events[1].hasEndpoint THEN "throw"
    ELSE "true"

\* canHandle: "true", "false", or "throw" when it reads a field of undefined.
EventsReceivedRequestHandler_canHandle(attrs, env) ==
    IF env.type # "CustomInterfaceController.EventsReceived" THEN "false"
    ELSE IF ~JsStrictEq(attrs.token, env.token) THEN "false"
    ELSE IF ~HasFirstEvent(env) THEN "throw"
    ELSE IF ~env.events[1].hasEndpoint THEN "throw"
    ELSE IF ~JsStrictEq(env.events[1].endpointId, attrs.endpointId) THEN "false"
    ELSE "true"

\* The text the handler computes for the event; "undefined" where no branch
\* assigns speechOutput.
EventSpeechOutput(name, payload) ==
    IF name = "Sentry"
    THEN IF payload.fire THEN Str("Threat eliminated")
         ELSE IF payload.move
              THEN Str("I cowarded to the threats, and now gone in hiding")
              ELSE Undefined
    ELSE IF name = "Speech" THEN payload.speechOut
    ELSE IF name = "Proximity" THEN Undefined
    ELSE Str("Event not recognized. Awaiting new command.")

\* A variant that refills the budget when the gadget reports an event.
EventsReceivedRequestHandler_handle_Refill(attrs, env) ==
    LET customEvent == env.events[1]
        payload == customEvent.payload
        name == customEvent.name
        a1 == putSessionAttribute(attrs, "duration", Num(InitialDuration))
    IN  IF name \in {"Proximity", "Sentry", "Speech"} /\ ~customEvent.hasPayload
        THEN Thrown(attrs)
        ELSE IF name = "Proximity" /\ JsLess(parseInt(payload.distance), Num(10))
        THEN Returned(
                withShouldEndSession(
                    speak(EmptyResponse,
                          Str("Intruder detected! What would you like to do?")),
                    FALSE),
                a1)
        ELSE Returned(
                speak(EmptyResponse,
                      JsConcat(EventSpeechOutput(name, payload), BG_MUSIC)),
                a1)

EventsReceivedRequestHandler_handle(attrs, env) ==
    LET customEvent == env.events[1]
        payload == customEvent.payload
        name == customEvent.name
    IN  IF name \in {"Proximity", "Sentry", "Speech"} /\ ~customEvent.hasPayload
        THEN Thrown(attrs)
        ELSE IF name = "Proximity" /\ JsLess(parseInt(payload.distance), Num(10))
        THEN Returned(
                withShouldEndSession(
                    speak(EmptyResponse,
                          Str("Intruder detected! What would you like to do?")),
                    FALSE),
                attrs)
        ELSE Returned(
                speak(EmptyResponse,
                      JsConcat(EventSpeechOutput(name, payload), BG_MUSIC)),
                attrs)

(***************************************************************************)
(* ExpiredRequestHandler                                                   *)
(***************************************************************************)
ExpiredRequestHandler_canHandle(env) ==
    env.type = "CustomInterfaceController.Expired"

\* Variant: the budget test is duration >= 0.
ExpiredRequestHandler_handle_NonNegative(attrs, env) ==
    LET token == Str(env.requestId)
        a1 == putSessionAttribute(attrs, "token", token)
        duration == JsOr(a1.duration, Num(0))
    IN  IF JsGreater(duration, Num(-1))
        THEN LET decremented == Num(duration.n - 1)
                 a2 == putSessionAttribute(a1, "duration", decremented)
                 speechOutput == Str(JsToString(decremented) \o " minutes remaining.")
             IN  Returned(
                    speak(addDirective(EmptyResponse,
                                       buildStartEventHandler(token, TimerInterval)),
                          JsConcat(speechOutput, BG_MUSIC)),
                    a2)
        ELSE Returned(
                withShouldEndSession(
                    speak(EmptyResponse, Str("Skill duration expired. Goodbye.")),
                    TRUE),
                a1)

\* Variant: duration-- in place of --duration, so the old budget is stored.
ExpiredRequestHandler_handle_PostDecrement(attrs, env) ==
    LET token == Str(env.requestId)
        a1 == putSessionAttribute(attrs, "token", token)
        duration == JsOr(a1.duration, Num(0))
    IN  IF JsGreater(duration, Num(0))
        THEN LET decremented == Num(duration.n - 1)
                 a2 == putSessionAttribute(a1, "duration", duration)
                 speechOutput == Str(JsToString(decremented) \o " minutes remaining.")
             IN  Returned(
                    speak(addDirective(EmptyResponse,
                                       buildStartEventHandler(token, TimerInterval)),
                          JsConcat(speechOutput, BG_MUSIC)),
                    a2)
        ELSE Returned(
                withShouldEndSession(
                    speak(EmptyResponse, Str("Skill duration expired. Goodbye.")),
                    TRUE),
                a1)

\* A variant whose new timer carries the token stored before the expiry.
ExpiredRequestHandler_handle_OldToken(attrs, env) ==
    LET token == Str(env.requestId)
        a1 == putSessionAttribute(attrs, "token", token)
        duration == JsOr(a1.duration, Num(0))
    IN  IF JsGreater(duration, Num(0))
        THEN LET decremented == Num(duration.n - 1)
                 a2 == putSessionAttribute(a1, "duration", decremented)
                 speechOutput == Str(JsToString(decremented) \o " minutes remaining.")
             IN  Returned(
                    speak(addDirective(EmptyResponse,
                                       buildStartEventHandler(attrs.token, TimerInterval)),
                          JsConcat(speechOutput, BG_MUSIC)),
                    a2)
        ELSE Returned(
                withShouldEndSession(
                    speak(EmptyResponse, Str("Skill duration expired. Goodbye.")),
                    TRUE),
                a1)

\* A variant that takes two off the budget at each renewal.
ExpiredRequestHandler_handle_ByTwo(attrs, env) ==
    LET token == Str(env.requestId)
        a1 == putSessionAttribute(attrs, "token", token)
        duration == JsOr(a1.duration, Num(0))
    IN  IF JsGreater(duration, Num(0))
        THEN LET decremented == Num(duration.n - 2)
                 a2 == putSessionAttribute(a1, "duration", decremented)
                 speechOutput == Str(JsToString(decremented) \o " minutes remaining.")
             IN  Returned(
                    speak(addDirective(EmptyResponse,
                                       buildStartEventHandler(token, TimerInterval)),
                          JsConcat(speechOutput, BG_MUSIC)),
                    a2)
        ELSE Returned(
                withShouldEndSession(
                    speak(EmptyResponse, Str("Skill duration expired. Goodbye.")),
                    TRUE),
                a1)

ExpiredRequestHandler_handle(attrs, env) ==
    LET token == Str(env.requestId)
        a1 == putSessionAttribute(attrs, "token", token)
        duration == JsOr(a1.duration, Num(0))
    IN  IF JsGreater(duration, Num(0))
        THEN LET decremented == Num(duration.n - 1)
                 a2 == putSessionAttribute(a1, "duration", decremented)
                 speechOutput == Str(JsToString(decremented) \o " minutes remaining.")
             IN  Returned(
                    speak(addDirective(EmptyResponse,
                                       buildStartEventHandler(token, TimerInterval)),
                          JsConcat(speechOutput, BG_MUSIC)),
                    a2)
        ELSE Returned(
                withShouldEndSession(
                    speak(EmptyResponse, Str("Skill duration expired. Goodbye.")),
                    TRUE),
                a1)

(***************************************************************************)
(* The handlers of ./common                                                *)
(***************************************************************************)
HelpIntentHandler_canHandle(env) == IsIntent(env, "AMAZON.HelpIntent")

HelpIntentHandler_handle(attrs, env) ==
    Returned(reprompt(speak(EmptyResponse, Str("How can I help?")),
                      Str("How can I help?")),
             attrs)

CancelAndStopIntentHandler_canHandle(env) ==
    IsIntent(env, "AMAZON.CancelIntent") \/ IsIntent(env, "AMAZON.StopIntent")

CancelAndStopIntentHandler_handle(attrs, env) ==
    Returned(speak(EmptyResponse, Str("Goodbye!")), attrs)

SessionEndedRequestHandler_canHandle(env) == env.type = "SessionEndedRequest"

SessionEndedRequestHandler_handle(attrs, env) == Returned(EmptyResponse, attrs)

\* The reflector: every intent no handler above it took.
IntentReflectorHandler_canHandle(env) == env.type = "IntentRequest"

IntentReflectorHandler_handle(attrs, env) ==
    Returned(speak(EmptyResponse, Str("You just triggered " \o env.intentName)),
             attrs)

\* The error boundary: a spoken apology, the session kept open.
ErrorHandler_handle(attrs, env) ==
    Returned(reprompt(speak(EmptyResponse,
                            Str("Sorry, I had trouble doing what you asked. Please try again.")),
                      Str("Sorry, I had trouble doing what you asked. Please try again.")),
             attrs)

(***************************************************************************)
(* exports.handler: the ordered handler list and the dispatch over it.     *)
(***************************************************************************)
\* .addRequestHandlers(...), top to bottom.
RequestHandlers ==
    <<"LaunchRequestHandler", "ComeIntentHandler", "TakeIntentHandler",
      "BringIntentHandler", "EventsReceivedRequestHandler",
      "ExpiredRequestHandler", "HelpIntentHandler",
      "CancelAndStopIntentHandler", "SessionEndedRequestHandler",
      "IntentReflectorHandler">>

Bool(b) == IF b THEN "true" ELSE "false"

canHandle(h, attrs, env) ==
    CASE h = "LaunchRequestHandler" -> Bool(LaunchRequestHandler_canHandle(env))
      [] h = "ComeIntentHandler" -> Bool(ComeIntentHandler_canHandle(env))
      [] h = "TakeIntentHandler" -> Bool(TakeIntentHandler_canHandle(env))
      [] h = "BringIntentHandler" -> Bool(BringIntentHandler_canHandle(env))
      [] h = "EventsReceivedRequestHandler" ->
            EventsReceivedRequestHandler_canHandle(attrs, env)
      [] h = "ExpiredRequestHandler" -> Bool(ExpiredRequestHandler_canHandle(env))
      [] h = "HelpIntentHandler" -> Bool(HelpIntentHandler_canHandle(env))
      [] h = "CancelAndStopIntentHandler" ->
            Bool(CancelAndStopIntentHandler_canHandle(env))
      [] h = "SessionEndedRequestHandler" ->
            Bool(SessionEndedRequestHandler_canHandle(env))
      [] h = "IntentReflectorHandler" -> Bool(IntentReflectorHandler_canHandle(env))
      [] h = "SetSpeedIntentHandler" -> Bool(SetSpeedIntentHandler_canHandle(env))
      [] h = "MoveIntentHandler" -> Bool(MoveIntentHandler_canHandle(env))
      [] h = "SetCommandIntentHandler" ->
            Bool(SetCommandIntentHandler_canHandle(env))

handle(h, attrs, env, api) ==
    CASE h = "LaunchRequestHandler" -> LaunchRequestHandler_handle(attrs, env, api)
      [] h = "ComeIntentHandler" -> ComeIntentHandler_handle(attrs, env)
      [] h = "TakeIntentHandler" -> TakeIntentHandler_handle(attrs, env)
      [] h = "BringIntentHandler" -> BringIntentHandler_handle(attrs, env)
      [] h = "EventsReceivedRequestHandler" ->
            EventsReceivedRequestHandler_handle(attrs, env)
      [] h = "ExpiredRequestHandler" -> ExpiredRequestHandler_handle(attrs, env)
      [] h = "HelpIntentHandler" -> HelpIntentHandler_handle(attrs, env)
      [] h = "CancelAndStopIntentHandler" ->
            CancelAndStopIntentHandler_handle(attrs, env)
      [] h = "SessionEndedRequestHandler" ->
            SessionEndedRequestHandler_handle(attrs, env)
      [] h = "IntentReflectorHandler" -> IntentReflectorHandler_handle(attrs, env)
      [] h = "SetSpeedIntentHandler" -> SetSpeedIntentHandler_handle(attrs, env)
      [] h = "MoveIntentHandler" -> MoveIntentHandler_handle(attrs, env)
      [] h = "SetCommandIntentHandler" -> SetCommandIntentHandler_handle(attrs, env)

\* The first handler of the list, from position i on, whose canHandle is
\* true; "none" when the list is exhausted, "throw" when a canHandle throws
\* before one matched.
RECURSIVE FirstMatch(_, _, _, _)
FirstMatch(handlers, i, attrs, env) ==
    IF i > Len(handlers) THEN "none"
    ELSE LET can == canHandle(handlers[i], attrs, env)
         IN  IF can = "true" THEN handlers[i]
             ELSE IF can = "throw" THEN "throw"
             ELSE FirstMatch(handlers, i + 1, attrs, env)

\* What one invocation of the entry point does: the handlers it ran, the
\* response, and the attributes left.  No match, a throwing canHandle and a
\* throwing handle all end in the error handler.
Dispatch(attrs, env, api) ==
    LET h == FirstMatch(RequestHandlers, 1, attrs, env)
    IN  IF h \in {"none", "throw"}
        THEN [invoked |-> <<"ErrorHandler">>,
              result |-> ErrorHandler_handle(attrs, env)]
        ELSE LET r == handle(h, attrs, env, api)
             IN  IF r.threw
                 THEN [invoked |-> <<h, "ErrorHandler">>,
                       result |-> ErrorHandler_handle(r.attrs, env)]
                 ELSE [invoked |-> <<h>>, result |-> r]

(***************************************************************************)
(* Request envelopes.                                                      *)
(***************************************************************************)
SlotNames == {"Bring", "Take", "Speed", "Direction", "Duration", "Command"}

NoSlots == [name \in SlotNames |-> Undefined]

\* requestId of the n-th request of the session: unique per request.
ReqId(n) == "request-" \o ToString(n)

Envelope(type, n, attrs) ==
    [type |-> type, requestId |-> ReqId(n), intentName |-> "", slots |-> NoSlots,
     token |-> Undefined, events |-> <<>>, attributes |-> attrs]

NoRequest ==
    [type |-> "", requestId |-> "", intentName |-> "", slots |-> NoSlots,
     token |-> Undefined, events |-> <<>>, attributes |-> NewSession]

NoApiCall == [called |-> FALSE, hasEndpoints |-> FALSE, endpoints |-> <<>>]

\* Answers of the endpoint enumeration API.
ApiResponses ==
    {[called |-> TRUE, hasEndpoints |-> FALSE, endpoints |-> <<>>],
     [called |-> TRUE, hasEndpoints |-> TRUE, endpoints |-> <<>>],
     [called |-> TRUE, hasEndpoints |-> TRUE, endpoints |-> <<Str("E1")>>],
     [called |-> TRUE, hasEndpoints |-> TRUE, endpoints |-> <<Str("E1"), Str("E2")>>]}

Intent(n, attrs, intentName, slots) ==
    [Envelope("IntentRequest", n, attrs) EXCEPT !.intentName = intentName,
                                                !.slots = slots]

Slot(name, values) == {[NoSlots EXCEPT ![name] = v] : v \in values}

IntentEnvelopes(n, attrs) ==
    {Intent(n, attrs, i, NoSlots) :
        i \in {"ComeIntent", "AMAZON.HelpIntent", "AMAZON.CancelIntent",
               "AMAZON.StopIntent", "AMAZON.FallbackIntent"}}
    \cup {Intent(n, attrs, "BringIntent", sl) :
            sl \in Slot("Bring", {Undefined, Str("ball")})}
    \cup {Intent(n, attrs, "TakeIntent", sl) :
            sl \in Slot("Take", {Undefined, Str("cup")})}
    \cup {Intent(n, attrs, "SetSpeedIntent", sl) :
            sl \in Slot("Speed", {Undefined, Str("-5"), Str("0"), Str("1"), Str("42"),
                                  Str("70"), Str("100"), Str("101"), Str("500"),
                                  Str("fast")})}
    \cup {Intent(n, attrs, "MoveIntent",
                 [NoSlots EXCEPT !["Direction"] = k[1], !["Duration"] = k[2]]) :
            k \in {<<Str("forward"), Str("3")>>, <<Str("forward"), Undefined>>,
                   <<Str("brake"), Undefined>>, <<Undefined, Undefined>>}}
    \cup {Intent(n, attrs, "SetCommandIntent", sl) :
            sl \in Slot("Command", {Undefined, Str("sentry"), Str("circle")})}

NoEventPayload ==
    [distance |-> Undefined, fire |-> FALSE, move |-> FALSE, speechOut |-> Undefined]

Event(endpointId, name, payload) ==
    [hasEndpoint |-> TRUE, endpointId |-> endpointId, name |-> name,
     hasPayload |-> TRUE, payload |-> payload]

\* Custom events the gadget sends, with well-formed and malformed shapes.
GadgetEvents ==
    {Event(Str("E1"), "Proximity", [NoEventPayload EXCEPT !.distance = d]) :
        d \in {Num(5), Num(50)}}
    \cup {Event(Str("E1"), "Sentry", [NoEventPayload EXCEPT !.fire = k[1], !.move = k[2]]) :
            k \in {<<TRUE, FALSE>>, <<FALSE, TRUE>>, <<FALSE, FALSE>>}}
    \cup {Event(Str("E1"), "Speech", [NoEventPayload EXCEPT !.speechOut = t]) :
            t \in {Undefined, Str("hello")}}
    \cup {Event(Str("E1"), "Touch", NoEventPayload),
          Event(Str("E2"), "Speech", [NoEventPayload EXCEPT !.speechOut = Str("hello")]),
          [Event(Str("E1"), "Proximity", NoEventPayload) EXCEPT !.hasPayload = FALSE],
          [Event(Undefined, "Touch", NoEventPayload) EXCEPT !.hasEndpoint = FALSE]}

EventLists ==
    {<<>>} \cup {<<e>> : e \in GadgetEvents}
    \cup {<<Event(Str("E2"), "Touch", NoEventPayload),
            Event(Str("E1"), "Touch", NoEventPayload)>>}

\* Tokens a notification can carry: the stored one, none, the id of the
\* session's first request, or the id of one of the latest earlier requests.
RequestTokens(n, attrs) ==
    {attrs.token, Undefined}
    \cup {Str(ReqId(k)) : k \in {j \in 0..(n - 1) : j = 0 \/ j >= n - MaxStale}}

\* The tokens of timer notifications still on their way: besides the above,
\* any token the session stored and has replaced since.
TokensInFlight(n, attrs, replaced) == RequestTokens(n, attrs) \cup replaced

EventsReceivedEnvelopes(n, attrs, replaced) ==
    {[Envelope("CustomInterfaceController.EventsReceived", n, attrs)
        EXCEPT !.token = tk, !.events = evs] :
        tk \in TokensInFlight(n, attrs, replaced), evs \in EventLists}

ExpiredEnvelopes(n, attrs) ==
    {[Envelope("CustomInterfaceController.Expired", n, attrs) EXCEPT !.token = tk] :
        tk \in RequestTokens(n, attrs)}

OtherEnvelopes(n, attrs) ==
    {Envelope("SessionEndedRequest", n, attrs),
     Envelope("System.ExceptionEncountered", n, attrs)}

(***************************************************************************)
(* The session as a state machine.                                         *)
(***************************************************************************)
\* The session goes on until a response ends it or the platform says it ended.
SessionOpen ==
    /\ response.shouldEndSession # "true"
    /\ requestEnvelope.type # "SessionEndedRequest"

\* The intents that command the gadget.
CommandIntents ==
    {"MoveIntent", "ComeIntent", "BringIntent", "TakeIntent", "SetCommandIntent"}

NoHistory ==
    [repeated |-> FALSE, expiries |-> 0, timers |-> 0,
     lastTimerToken |-> Undefined, superseded |-> {}]

StartEventHandlers(resp) ==
    {i \in 1..Len(resp.directives) :
        resp.directives[i].type = "CustomInterfaceController.StartEventHandler"}

\* The history after an invocation: env follows prev, ran lists the handlers
\* run, the attributes went from before to after, resp was returned.
Recorded(old, prev, env, ran, before, after, resp) ==
    [repeated |->
        /\ env.type = "IntentRequest"
        /\ env.intentName \in CommandIntents
        /\ prev.type = env.type
        /\ prev.intentName = env.intentName
        /\ prev.slots = env.slots,
     expiries |->
        old.expiries + (IF ran[1] = "ExpiredRequestHandler" THEN 1 ELSE 0),
     timers |-> old.timers + Cardinality(StartEventHandlers(resp)),
     lastTimerToken |->
        IF StartEventHandlers(resp) = {} THEN old.lastTimerToken
        ELSE resp.directives[CHOOSE i \in StartEventHandlers(resp) :
                                \A j \in StartEventHandlers(resp) : j <= i].token,
     superseded |->
        IF after.token # before.token /\ before.token # Undefined
        THEN old.superseded \cup {before.token}
        ELSE old.superseded]

\* One invocation of exports.handler with envelope env, answered by handler
\* h (the error handler when none is found).
Deliver(h, env, api) ==
    /\ SessionOpen
    /\ nextId < (IF ExpiredRequestHandler_canHandle(env)
                 THEN MaxSessionLength ELSE MaxRequests)
    /\ requestEnvelope' = env
    /\ apiResponse' = api
    /\ via' = "lambda"
    /\ nextId' = nextId + 1
    /\ \E d \in {Dispatch(sessionAttributes, env, api)} :
           /\ d.invoked[1] = h
           /\ invoked' = d.invoked
           /\ sessionAttributes' = d.result.attrs
           /\ response' = d.result.response
           /\ history' = Recorded(history, requestEnvelope, env, d.invoked,
                                  sessionAttributes, d.result.attrs,
                                  d.result.response)

\* A call of a handler object itself, as a unit test of the handler makes it.
Call(h, env) ==
    /\ SessionOpen
    /\ nextId < MaxRequests
    /\ canHandle(h, sessionAttributes, env) = "true"
    /\ \E r \in {handle(h, sessionAttributes, env, NoApiCall)} :
           /\ sessionAttributes' = r.attrs
           /\ response' = r.response
           /\ invoked' = IF r.threw THEN <<h, "throw">> ELSE <<h>>
           /\ history' = Recorded(history, requestEnvelope, env, <<h>>,
                                  sessionAttributes, r.attrs, r.response)
    /\ requestEnvelope' = env
    /\ apiResponse' = NoApiCall
    /\ via' = "call"
    /\ nextId' = nextId + 1

\* A launch request opens the session.
LaunchRequest ==
    /\ nextId = 0
    /\ \E api \in ApiResponses :
          Deliver("LaunchRequestHandler",
                  Envelope("LaunchRequest", nextId, sessionAttributes), api)

ComeIntent ==
    \E env \in IntentEnvelopes(nextId, sessionAttributes) :
        Deliver("ComeIntentHandler", env, NoApiCall)

TakeIntent ==
    \E env \in IntentEnvelopes(nextId, sessionAttributes) :
        Deliver("TakeIntentHandler", env, NoApiCall)

BringIntent ==
    \E env \in IntentEnvelopes(nextId, sessionAttributes) :
        Deliver("BringIntentHandler", env, NoApiCall)

EventsReceived ==
    \E env \in EventsReceivedEnvelopes(nextId, sessionAttributes, history.superseded) :
        Deliver("EventsReceivedRequestHandler", env, NoApiCall)

Expired ==
    \E env \in ExpiredEnvelopes(nextId, sessionAttributes) :
        Deliver("ExpiredRequestHandler", env, NoApiCall)

HelpIntent ==
    \E env \in IntentEnvelopes(nextId, sessionAttributes) :
        Deliver("HelpIntentHandler", env, NoApiCall)

CancelAndStopIntent ==
    \E env \in IntentEnvelopes(nextId, sessionAttributes) :
        Deliver("CancelAndStopIntentHandler", env, NoApiCall)

SessionEnded ==
    \E env \in OtherEnvelopes(nextId, sessionAttributes) :
        Deliver("SessionEndedRequestHandler", env, NoApiCall)

IntentReflector ==
    \E env \in IntentEnvelopes(nextId, sessionAttributes) :
        Deliver("IntentReflectorHandler", env, NoApiCall)

\* A request no handler of the list takes, or whose canHandle throws.
NoHandler ==
    \E env \in EventsReceivedEnvelopes(nextId, sessionAttributes, history.superseded)
               \cup OtherEnvelopes(nextId, sessionAttributes) :
        Deliver("ErrorHandler", env, NoApiCall)

SetSpeedIntentCall ==
    \E env \in IntentEnvelopes(nextId, sessionAttributes) :
        Call("SetSpeedIntentHandler", env)

MoveIntentCall ==
    \E env \in IntentEnvelopes(nextId, sessionAttributes) :
        Call("MoveIntentHandler", env)

SetCommandIntentCall ==
    \E env \in IntentEnvelopes(nextId, sessionAttributes) :
        Call("SetCommandIntentHandler", env)

Init ==
    /\ sessionAttributes = NewSession
    /\ requestEnvelope = NoRequest
    /\ apiResponse = NoApiCall
    /\ response = EmptyResponse
    /\ invoked = <<>>
    /\ via = "none"
    /\ history = NoHistory
    /\ nextId = 0

\* The deployed skill: every request goes through exports.handler.
Next ==
    \/ LaunchRequest
    \/ ComeIntent
    \/ TakeIntent
    \/ BringIntent
    \/ EventsReceived
    \/ Expired
    \/ HelpIntent
    \/ CancelAndStopIntent
    \/ SessionEnded
    \/ IntentReflector
    \/ NoHandler

Spec == Init /\ [][Next]_vars

\* The skill together with direct calls of the handlers it defines but does
\* not register.
NextUnit ==
    \/ Next
    \/ SetSpeedIntentCall
    \/ MoveIntentCall
    \/ SetCommandIntentCall

SpecUnit == Init /\ [][NextUnit]_vars

\* The timer a directive started runs out: while the session is open, expiry
\* notifications keep arriving.
SpecLive == Spec /\ WF_vars(Expired)

(***************************************************************************)
(* Properties.  Each is about the last invocation: requestEnvelope holds   *)
(* the request and the attributes it arrived with, sessionAttributes the   *)
(* attributes it left, response what it returned.                          *)
(***************************************************************************)
Before == requestEnvelope.attributes

ThroughEntryPoint == via = "lambda"

Handled(h) == ThroughEntryPoint /\ invoked = <<h>>

IsEventsReceived == requestEnvelope.type = "CustomInterfaceController.EventsReceived"

IsExpired == requestEnvelope.type = "CustomInterfaceController.Expired"

\* The request's token is not the stored one, or its first event names
\* another endpoint than the stored one.
TokenOrEndpointDiffers ==
    \/ requestEnvelope.token # Before.token
    \/ /\ Len(requestEnvelope.events) > 0
       /\ requestEnvelope.events[1].hasEndpoint
       /\ requestEnvelope.events[1].endpointId # Before.endpointId

TimerDirectives ==
    {i \in 1..Len(response.directives) :
        response.directives[i].type = "CustomInterfaceController.StartEventHandler"}

\* Whether text holds part as a contiguous piece.
Contains(text, part) ==
    \E i \in 1..(Len(text) - Len(part) + 1) :
        SubSeq(text, i, i + Len(part) - 1) = part

\* C1: a custom event whose token or first endpoint differs from the stored
\* one is dropped silently: no spoken text, no directive, the event handler
\* does not run, the session attributes stay as they were.
C1_MismatchedEventDroppedSilently ==
    (ThroughEntryPoint /\ IsEventsReceived /\ TokenOrEndpointDiffers)
        => /\ response.speech = Undefined
           /\ response.directives = <<>>
           /\ \A i \in 1..Len(invoked) : invoked[i] # "EventsReceivedRequestHandler"
           /\ sessionAttributes = Before

\* C2: an expiry notification whose token is not the stored one is ignored:
\* token and budget stay, no timer is started, the session is not ended.
C2_StaleExpiryIgnored ==
    (ThroughEntryPoint /\ IsExpired /\ requestEnvelope.token # Before.token)
        => /\ sessionAttributes.token = Before.token
           /\ sessionAttributes.duration = Before.duration
           /\ TimerDirectives = {}
           /\ response.shouldEndSession # "true"

\* C3: an expiry handled while the budget is 0 or unset ends the session
\* and starts no timer.
C3_ExhaustedBudgetEndsSession ==
    (Handled("ExpiredRequestHandler") /\ Before.duration \in {Num(0), Undefined})
        => /\ response.shouldEndSession = "true"
           /\ TimerDirectives = {}

C3_Witness ==
    /\ Handled("ExpiredRequestHandler")
    /\ Before.duration = Num(0)
    /\ Before.endpointId = Str("E1")

C5_StoredSpeedInRange ==
    (invoked # <<>> /\ invoked[1] = "SetSpeedIntentHandler")
        => LET given == requestEnvelope.slots["Speed"]
               stored == sessionAttributes.speed
           IN  /\ stored.t = "number"
               /\ stored.n >= 1
               /\ stored.n <= 100
               /\ given \in {Str("-5"), Str("0"), Str("1")} => stored = Num(1)
               /\ given = Str("42") => stored = Num(42)
               /\ given = Str("70") => stored = Num(70)
               /\ given \in {Str("100"), Str("101"), Str("500")} => stored = Num(100)

\* C6: MoveIntent forward / 3 through the entry point with stored speed 70
\* yields exactly one control directive {move, forward, "3", 70} for the
\* session's endpoint and says "forward 3 seconds at 70 percent speed".
C6_MoveScenario ==
    (/\ ThroughEntryPoint
     /\ IsIntent(requestEnvelope, "MoveIntent")
     /\ requestEnvelope.slots["Direction"] = Str("forward")
     /\ requestEnvelope.slots["Duration"] = Str("3")
     /\ Before.speed = Num(70))
        => /\ Len(response.directives) = 1
           /\ response.directives[1].type = "CustomInterfaceController.SendDirective"
           /\ response.directives[1].endpointId = Before.endpointId
           /\ response.directives[1].payload =
                [type |-> Str("move"), direction |-> Str("forward"),
                 duration |-> Str("3"), command |-> Undefined, speed |-> Num(70)]
           /\ response.speech.t = "string"
           /\ Contains(response.speech.s, "forward 3 seconds at 70 percent speed")

C8_LaunchWithoutGadget ==
    (ThroughEntryPoint /\ requestEnvelope.type = "LaunchRequest"
        /\ (~apiResponse.hasEndpoints \/ Len(apiResponse.endpoints) = 0))
        => /\ invoked = <<"LaunchRequestHandler">>
           /\ response.speech.t = "string"
           /\ Contains(response.speech.s, "I couldn't find an EV3 Brick")
           /\ response.directives = <<>>
           /\ sessionAttributes.endpointId = Undefined
           /\ sessionAttributes.token = Undefined
           /\ sessionAttributes.duration = Undefined

C8_Witness ==
    /\ Handled("LaunchRequestHandler")
    /\ ~apiResponse.hasEndpoints
    /\ response.directives = <<>>

\* C9: a request no predicate of the handler list matches (a custom event
\* rejected for its token or endpoint, a request type without handler) is
\* answered by the fallback, run exactly once and alone, and the session
\* attributes stay as they were.
C9_UnmatchedRequestFallsBack ==
    (/\ ThroughEntryPoint
     /\ \/ IsEventsReceived /\ TokenOrEndpointDiffers
        \/ requestEnvelope.type = "System.ExceptionEncountered")
        => /\ invoked = <<"ErrorHandler">>
           /\ sessionAttributes = Before

C9_Witness ==
    /\ ThroughEntryPoint
    /\ IsEventsReceived
    /\ requestEnvelope.token = Before.token
    /\ Before.endpointId = Str("E1")
    /\ Len(requestEnvelope.events) = 1
    /\ requestEnvelope.events[1].endpointId = Str("E2")
    /\ invoked = <<"ErrorHandler">>

\* C10: every invocation answers with a spoken text that is a defined
\* string (the answer to the end-of-session notice, which carries no speech
\* by contract, aside): never absent, never made from an undefined value.
C10_SpokenTextDefined ==
    (ThroughEntryPoint /\ requestEnvelope.type # "SessionEndedRequest")
        => /\ response.speech.t = "string"
           /\ ~Contains(response.speech.s, "undefined")

(***************************************************************************)
(* C11: when the entry point has answered a command intent and the next     *)
(* request is the same intent with the same slot values, the second         *)
(* response carries the same directives and the same spoken text as the     *)
(* first, and the session attributes are the ones the first request found.  *)
(***************************************************************************)
IsCommandIntent(env) ==
    env.type = "IntentRequest" /\ env.intentName \in CommandIntents

C11_RepeatedCommandSameResponse ==
    [][(/\ ThroughEntryPoint
        /\ IsCommandIntent(requestEnvelope)
        /\ via' = "lambda"
        /\ requestEnvelope'.type = requestEnvelope.type
        /\ requestEnvelope'.intentName = requestEnvelope.intentName
        /\ requestEnvelope'.slots = requestEnvelope.slots)
       => /\ response'.directives = response.directives
          /\ response'.speech = response.speech
          /\ sessionAttributes' = Before]_vars

\* The bring intent was sent twice in a row and answered with a directive.
C11_Witness ==
    /\ history.repeated
    /\ Handled("BringIntentHandler")
    /\ Len(response.directives) = 1
    /\ response.directives[1].type = "CustomInterfaceController.SendDirective"

(***************************************************************************)
(* C12: in a session a launch found a gadget for, the budget is a number    *)
(* from 0 to 10 and never increases; each of the first ten expiry           *)
(* notifications is answered with a new timer and the session kept open,    *)
(* the eleventh with the end of the session and no timer; at most eleven    *)
(* timers are started; and the session comes to its end.                    *)
(***************************************************************************)
Launched == sessionAttributes.endpointId # Undefined

C12_BudgetWithinBounds ==
    Launched =>
        /\ sessionAttributes.duration.t = "number"
        /\ sessionAttributes.duration.n >= 0
        /\ sessionAttributes.duration.n <= InitialDuration
        /\ history.expiries <= InitialDuration + 1
        /\ history.timers <= InitialDuration + 1
        /\ (Handled("ExpiredRequestHandler") /\ history.expiries <= InitialDuration)
            => /\ TimerDirectives = {1}
               /\ response.shouldEndSession # "true"
        /\ (Handled("ExpiredRequestHandler") /\ history.expiries = InitialDuration + 1)
            => /\ TimerDirectives = {}
               /\ response.shouldEndSession = "true"

C12_BudgetBoundsSession ==
    /\ []C12_BudgetWithinBounds
    /\ [][Launched =>
            sessionAttributes'.duration.n <= sessionAttributes.duration.n]_vars
    /\ (Launched ~> ~SessionOpen)

\* The eleventh expiry of a launched session ended it, eleven timers started.
C12_Witness ==
    /\ Launched
    /\ Handled("ExpiredRequestHandler")
    /\ history.expiries = InitialDuration + 1
    /\ history.timers = InitialDuration + 1
    /\ sessionAttributes.duration = Num(0)
    /\ response.shouldEndSession = "true"

(***************************************************************************)
(* C13: a custom event whose token the session stored once and has          *)
(* replaced since is rejected by the predicate of the event handler, which  *)
(* then does not run; an event the handler takes carries the token stored   *)
(* at that moment, which is none of the replaced ones.                      *)
(***************************************************************************)
C13_SupersededTokenRejected ==
    (ThroughEntryPoint /\ IsEventsReceived)
        => /\ requestEnvelope.token \in history.superseded
                => /\ EventsReceivedRequestHandler_canHandle(Before, requestEnvelope)
                        = "false"
                   /\ \A i \in 1..Len(invoked) :
                        invoked[i] # "EventsReceivedRequestHandler"
                   /\ sessionAttributes = Before
           /\ Handled("EventsReceivedRequestHandler")
                => /\ requestEnvelope.token = Before.token
                   /\ requestEnvelope.token \notin history.superseded

\* After a renewal, an event of the stored gadget arrived with the token of
\* the launch.
C13_Witness ==
    /\ ThroughEntryPoint
    /\ IsEventsReceived
    /\ Launched
    /\ history.expiries >= 1
    /\ requestEnvelope.token = Str(ReqId(0))
    /\ requestEnvelope.token \in history.superseded
    /\ Len(requestEnvelope.events) > 0
    /\ requestEnvelope.events[1].hasEndpoint
    /\ requestEnvelope.events[1].endpointId = Before.endpointId
    /\ invoked = <<"ErrorHandler">>

(***************************************************************************)
(* C14, as stated: for every request at most one predicate of the           *)
(* registered handlers is true.                                             *)
(***************************************************************************)
Matching ==
    {i \in 1..Len(RequestHandlers) :
        canHandle(RequestHandlers[i], Before, requestEnvelope) = "true"}

C14_AtMostOnePredicateTrue ==
    ThroughEntryPoint => Cardinality(Matching) <= 1

(***************************************************************************)
(* C14, amended: at most one predicate other than the reflector's is true,  *)
(* and the handler it belongs to is the one that runs; the reflector's      *)
(* predicate is true of every intent request, those of the handlers above   *)
(* it included, so that a second true predicate is always the reflector's,  *)
(* which is last in the list.                                               *)
(***************************************************************************)
C14_OnlyReflectorOverlaps ==
    ThroughEntryPoint =>
        LET specific == {i \in Matching :
                            RequestHandlers[i] # "IntentReflectorHandler"}
        IN  /\ Cardinality(specific) <= 1
            /\ \A i \in specific : invoked[1] = RequestHandlers[i]
            /\ Cardinality(Matching) <= 2
            /\ Cardinality(Matching) = 2 => Len(RequestHandlers) \in Matching
            /\ RequestHandlers[Len(RequestHandlers)] = "IntentReflectorHandler"
            /\ requestEnvelope.type = "IntentRequest"
                => Len(RequestHandlers) \in Matching

\* The come intent was answered by its handler while the reflector's
\* predicate was true of it as well.
C14_Witness ==
    /\ Handled("ComeIntentHandler")
    /\ Cardinality(Matching) = 2

(***************************************************************************)
(* C15: for every request and session state, no predicate of the            *)
(* registered handlers throws; the predicate of the event handler answers   *)
(* true or false also when the events list is empty or the first event has  *)
(* no endpoint.                                                             *)
(***************************************************************************)
C15_PredicatesNeverThrow ==
    ThroughEntryPoint =>
        \A i \in 1..Len(RequestHandlers) :
            canHandle(RequestHandlers[i], Before, requestEnvelope) \in {"true", "false"}

(***************************************************************************)
(* C16: when the handler of a command intent runs on a request whose        *)
(* required slot is absent, the response is the re-prompt (asks to repeat,  *)
(* shouldEndSession false, no directive) and the session is unchanged; and  *)
(* no move directive lacks its direction.                                   *)
(***************************************************************************)
RequiredSlot ==
    [h \in {"MoveIntentHandler", "BringIntentHandler", "TakeIntentHandler",
            "SetCommandIntentHandler"} |->
        CASE h = "MoveIntentHandler" -> "Direction"
          [] h = "BringIntentHandler" -> "Bring"
          [] h = "TakeIntentHandler" -> "Take"
          [] h = "SetCommandIntentHandler" -> "Command"]

C16_AbsentSlotReprompts ==
    /\ (/\ Len(invoked) > 0
        /\ invoked[1] \in DOMAIN RequiredSlot
        /\ ~Truthy(requestEnvelope.slots[RequiredSlot[invoked[1]]]))
        => /\ response.speech = Str("Can you repeat that?")
           /\ response.shouldEndSession = "false"
           /\ response.directives = <<>>
           /\ sessionAttributes = Before
    /\ \A i \in 1..Len(response.directives) :
        (/\ response.directives[i].type = "CustomInterfaceController.SendDirective"
         /\ response.directives[i].payload.type = Str("move"))
            => Truthy(response.directives[i].payload.direction)

(***************************************************************************)
(* C17: a command intent with its required slots present, arriving in a     *)
(* session that has an endpoint, is answered with exactly one control       *)
(* directive to that endpoint, whose payload type is the one of the intent  *)
(* and whose speed is the stored speed, or 50 when none is stored.          *)
(***************************************************************************)
CommandType ==
    [n \in CommandIntents |->
        CASE n = "MoveIntent" -> "move"
          [] n = "ComeIntent" -> "come"
          [] n = "BringIntent" -> "bring"
          [] n = "TakeIntent" -> "take"
          [] n = "SetCommandIntent" -> "command"]

RequiredSlotsPresent(env) ==
    CASE env.intentName = "MoveIntent" -> Truthy(env.slots["Direction"])
      [] env.intentName = "BringIntent" -> Truthy(env.slots["Bring"])
      [] env.intentName = "TakeIntent" -> Truthy(env.slots["Take"])
      [] env.intentName = "SetCommandIntent" -> Truthy(env.slots["Command"])
      [] OTHER -> TRUE

C17_CommandYieldsOneDirective ==
    (/\ ThroughEntryPoint
     /\ IsCommandIntent(requestEnvelope)
     /\ RequiredSlotsPresent(requestEnvelope)
     /\ Truthy(Before.endpointId))
        => /\ Len(response.directives) = 1
           /\ response.directives[1].type = "CustomInterfaceController.SendDirective"
           /\ response.directives[1].endpointId = Before.endpointId
           /\ response.directives[1].payload.type
                = Str(CommandType[requestEnvelope.intentName])
           /\ response.directives[1].payload.speed
                \in (IF Truthy(Before.speed) THEN {Before.speed}
                     ELSE {Num(50), Str("50")})

(***************************************************************************)
(* C18: no control directive of a response has an empty or absent           *)
(* endpoint; when a command handler goes on to build its directive in a     *)
(* session without an endpointId, building fails, the response carries no   *)
(* directive and is the one of the error handler.                           *)
(***************************************************************************)
ControlDirectives ==
    {i \in 1..Len(response.directives) :
        response.directives[i].type = "CustomInterfaceController.SendDirective"}

TokenIsLastTimers ==
    (SessionOpen /\ history.timers > 0)
        => sessionAttributes.token = history.lastTimerToken

TimerStartedWithStoredToken ==
    \E i \in TimerDirectives :
        response.directives[i].token = sessionAttributes.token

C19_TokenChangesOnlyWithTimer ==
    /\ TokenIsLastTimers
    /\ sessionAttributes.token # Before.token => TimerStartedWithStoredToken

(***************************************************************************)
(* C19, amended: while the session is open and a timer has been started,    *)
(* the stored token is the token of the timer started last; a request that  *)
(* changes the stored token starts a timer with that token in its response, *)
(* except the expiry that finds no budget left: it stores its request id as *)
(* token, starts no timer and ends the session.                             *)
(***************************************************************************)
C19_TokenChangesWithTimerOrAtEnd ==
    /\ TokenIsLastTimers
    /\ sessionAttributes.token # Before.token
        => \/ TimerStartedWithStoredToken
           \/ /\ Handled("ExpiredRequestHandler")
              /\ ~JsGreater(JsOr(Before.duration, Num(0)), Num(0))
              /\ sessionAttributes.token = Str(requestEnvelope.requestId)
              /\ TimerDirectives = {}
              /\ response.shouldEndSession = "true"

\* A renewal replaced the token of the launch and started the second timer.
C19_Witness ==
    /\ Handled("ExpiredRequestHandler")
    /\ SessionOpen
    /\ history.timers = 2
    /\ Before.token = Str(ReqId(0))
    /\ sessionAttributes.token # Before.token
    /\ sessionAttributes.token = history.lastTimerToken

(***************************************************************************)
(* C20: a request answered by the come, bring or take handler or by the     *)
(* event handler leaves endpointId, token and duration as they were; only   *)
(* a launch that found a gadget changes endpointId, and only a launch or    *)
(* an expiry changes token or duration.                                     *)
(***************************************************************************)
C20_CommandsAndEventsKeepTimerState ==
    (ThroughEntryPoint /\ Len(invoked) > 0) =>
        /\ invoked[1] \in {"ComeIntentHandler", "BringIntentHandler",
                           "TakeIntentHandler", "EventsReceivedRequestHandler"}
            => /\ sessionAttributes.endpointId = Before.endpointId
               /\ sessionAttributes.token = Before.token
               /\ sessionAttributes.duration = Before.duration
        /\ sessionAttributes.endpointId # Before.endpointId
            => /\ Handled("LaunchRequestHandler")
               /\ apiResponse.hasEndpoints
               /\ Len(apiResponse.endpoints) > 0
        /\ (\/ sessionAttributes.token # Before.token
            \/ sessionAttributes.duration # Before.duration)
            => invoked[1] \in {"LaunchRequestHandler", "ExpiredRequestHandler"}

\* An event of the gadget was accepted after a renewal and left the budget
\* and the token as the renewal had set them.
C20_Witness ==
    /\ Handled("EventsReceivedRequestHandler")
    /\ history.expiries = 1
    /\ Before.endpointId = Str("E1")
    /\ sessionAttributes.duration = Num(InitialDuration - 1)
    /\ sessionAttributes.token = Str(ReqId(1))
    /\ sessionAttributes = Before

====
